---- MODULE Spec2Model ----
(***************************************************************************)
(* Model of the diagnostic toolkit of marketplace_UI.                      *)
(*                                                                         *)
(* Part 1: the static validator, textual-plugin/helpers/                   *)
(* textual-validator.py: the TextualValidator class (its sub-passes, the   *)
(* auto-fix engine, the report) and the command line loop of main().       *)
(*                                                                         *)
(* A source file is a sequence of lines, one top-level statement per line; *)
(* a line is the statement it spells plus the words of its trailing        *)
(* comment.  ast.parse turns the lines into a tree of nodes (records with  *)
(* a `kind` field named after the ast class); ast.walk is the breadth-     *)
(* first traversal of that tree.  Each sub-pass is an operator from the    *)
(* validator's fields and the tree to the validator's fields, with the     *)
(* exception it raises, if any.                                            *)
(***************************************************************************)
EXTENDS Integers, Sequences, FiniteSets

(***************************************************************************)
(* Schema registry (module constants of textual-validator.py)              *)
(***************************************************************************)
VALID_WIDGETS ==
    {"Button", "Label", "Input", "Static", "TextArea", "Table",
     "DataTable", "ListView", "ListItem", "Tabs", "TabPane",
     "Switch", "Checkbox", "RadioSet", "RadioButton", "ProgressBar",
     "Select", "OptionList", "DirectoryTree", "FileTree",
     "DataGrid", "Tree", "Markdown", "Log", "Pretty", "Sparkline",
     "Gauge", "Horizontal", "Vertical", "Container", "ContentSwitcher",
     "Placeholder", "LoadingIndicator", "Collapsible", "Badge",
     "Tag", "Toast", "ScreenSwitch", "ContentTab"}

VALID_CONTAINERS ==
    {"Container", "Horizontal", "Vertical", "Tabs", "TabPane",
     "Collapsible", "ContentSwitcher", "ScreenSwitch"}

VALID_EVENTS ==
    {"Mount", "Unmount", "Key", "Click", "Button", "Input",
     "ListView", "Tab", "Switch", "CheckBox", "Tree", "Log",
     "Message", "Event"}

DEPRECATED_WIDGETS == {"FooterTui", "HeaderTui"}

(***************************************************************************)
(* Generic helpers on sequences                                            *)
(***************************************************************************)
Range(s) == {s[k] : k \in 1..Len(s)}

RECURSIVE FoldLeft(_, _, _)
FoldLeft(Op(_, _), acc, s) ==
    IF s = <<>> THEN acc ELSE FoldLeft(Op, Op(acc, Head(s)), Tail(s))

RECURSIVE Count(_, _)
Count(s, x) ==
    IF s = <<>> THEN 0 ELSE (IF Head(s) = x THEN 1 ELSE 0) + Count(Tail(s), x)

(***************************************************************************)
(* Syntax tree nodes (the classes of Python's ast module that the          *)
(* validator looks at; Load/Store/alias/arguments nodes, which no pass     *)
(* matches, are left out of the tree)                                      *)
(***************************************************************************)
None == [kind |-> "None"]

Name(id) == [kind |-> "Name", id |-> id]

Attribute(value, attr) == [kind |-> "Attribute", value |-> value, attr |-> attr]

Call(func) == [kind |-> "Call", func |-> func]

Yield(value) == [kind |-> "Yield", value |-> value]

Expr(value) == [kind |-> "Expr", value |-> value]

\* a constant of Python type `type`; `lines` is the text of a str constant,
\* one sequence of tokens per physical line
Constant(type, lines) == [kind |-> "Constant", type |-> type, lines |-> lines]

Assign(target, value) == [kind |-> "Assign", target |-> target, value |-> value]

\* module: the dotted module path as a sequence of parts; names: alias names
ImportFrom(module, names) == [kind |-> "ImportFrom", module |-> module, names |-> names]

Import(names) == [kind |-> "Import", names |-> names]

\* name: the method name split at its underscores, on_key = <<"on", "key">>;
\* nargs: len(node.args.args); returns: the annotation node or None
FunctionDef(name, nargs, returns, body) ==
    [kind |-> "FunctionDef", name |-> name, nargs |-> nargs,
     returns |-> returns, body |-> body]

ClassDef(name, bases, body) ==
    [kind |-> "ClassDef", name |-> name, bases |-> bases, body |-> body]

Module(body) == [kind |-> "Module", body |-> body]

\* text that is not a Python statement
Bad == [kind |-> "Bad"]

\* ast.iter_child_nodes: the child nodes in the order of the class's _fields
iter_child_nodes(n) ==
    CASE n.kind = "Module" -> n.body
      [] n.kind = "ClassDef" -> n.bases \o n.body
      [] n.kind = "FunctionDef" ->
            n.body \o (IF n.returns = None THEN <<>> ELSE <<n.returns>>)
      [] n.kind = "Assign" -> <<n.target, n.value>>
      [] n.kind = "Expr" -> <<n.value>>
      [] n.kind = "Yield" -> IF n.value = None THEN <<>> ELSE <<n.value>>
      [] n.kind = "Call" -> <<n.func>>
      [] n.kind = "Attribute" -> <<n.value>>
      [] OTHER -> <<>>

\* ast.walk: breadth first, the deque `todo` of the library code
RECURSIVE walk_todo(_)
walk_todo(todo) ==
    IF todo = <<>> THEN <<>>
    ELSE <<Head(todo)>> \o walk_todo(Tail(todo) \o iter_child_nodes(Head(todo)))

walk(node) == walk_todo(<<node>>)

IsKind(n, k) == n.kind = k

(***************************************************************************)
(* Source text                                                             *)
(***************************************************************************)
\* one line of a source file: the statement it spells and the words of its
\* trailing comment (<<>>: no comment)
Line(stmt, comment) == [stmt |-> stmt, comment |-> comment]

\* ast.parse(content): SyntaxError when some line is not a statement,
\* otherwise the Module of the statements (comments are not in the tree)
SyntaxErrorIn(content) == \E k \in 1..Len(content) : content[k].stmt = Bad

parse(content) == Module([k \in 1..Len(content) |-> content[k].stmt])

(***************************************************************************)
(* Validation issues.  A message is its format string (`text`) and the     *)
(* values formatted into it.                                               *)
(***************************************************************************)
Msg(text) == [text |-> text, name |-> "", use |-> "", line |-> 0, handler |-> <<>>]

MsgName(text, name) == [Msg(text) EXCEPT !.name = name]

MsgLine(text, line) == [Msg(text) EXCEPT !.line = line]

\* TextualValidator.__init__: the four issue lists
NewValidator ==
    [errors |-> <<>>, warnings |-> <<>>, suggestions |-> <<>>, fixes_applied |-> <<>>]

AddError(v, m) == [v EXCEPT !.errors = Append(@, m)]

AddWarning(v, m) == [v EXCEPT !.warnings = Append(@, m)]

AddSuggestion(v, m) == [v EXCEPT !.suggestions = Append(@, m)]

\* the result of a sub-pass: the validator's fields and the exception raised
NoExc == ""

Ok(v) == [v |-> v, exc |-> NoExc]

Raise(v, e) == [v |-> v, exc |-> e]

(***************************************************************************)
(* TextualValidator: the sub-passes                                        *)
(***************************************************************************)
\* 'textual' in node.module
HasTextual(module) == "textual" \in Range(module)

\* the `imports` set built by the loop of _validate_imports
imports_of(tree) ==
    LET nodes == walk(tree)
    IN UNION {
        LET n == nodes[k] IN
            IF n.kind = "ImportFrom"
            THEN (IF n.module # <<>> /\ HasTextual(n.module) THEN Range(n.names) ELSE {})
            ELSE IF n.kind = "Import" THEN Range(n.names) ELSE {}
        : k \in 1..Len(nodes) }

MissingImportMsg == Msg("Missing required import: from textual.app import App")

_validate_imports(v, tree) ==
    LET imports == imports_of(tree)
        v1 == IF "App" \notin imports /\ "app" \notin imports
              THEN AddError(v, MissingImportMsg) ELSE v
        v2 == IF "ComposeResult" \notin imports /\ "compose_result" \notin imports
              THEN AddWarning(v1, Msg("Consider importing ComposeResult for type hints"))
              ELSE v1
    IN Ok(v2)

_check_return_annotation(node, expected) ==
    IF node.returns = None THEN FALSE
    ELSE IF node.returns.kind = "Name" THEN node.returns.id = expected
    ELSE FALSE

\* one iteration of the loop over app_class.body; st = [v, has_compose]
app_methods_step(cls, st, node) ==
        IF node.kind # "FunctionDef" THEN st
        ELSE IF node.name = <<"compose">> THEN
            LET v1 == IF node.returns = None
                      THEN AddWarning(st.v, MsgName(
                             "Method 'compose' in {name} should have return type hint (ComposeResult)",
                             cls.name))
                      ELSE st.v
                v2 == IF ~_check_return_annotation(node, "ComposeResult")
                      THEN AddWarning(v1, MsgName(
                             "Method 'compose' in {name} should return ComposeResult",
                             cls.name))
                      ELSE v1
            IN [v |-> v2, has_compose |-> TRUE]
        ELSE IF node.name = <<"on", "mount">> THEN st
        ELSE IF node.name = <<"on", "key">> THEN
            [st EXCEPT !.v = AddSuggestion(@, MsgName(
                "Consider using BINDINGS instead of on_key in {name}", cls.name))]
        ELSE st

_validate_app_methods(v, app_class) ==
    LET st == FoldLeft(LAMBDA acc, node : app_methods_step(app_class, acc, node),
                       [v |-> v, has_compose |-> FALSE], app_class.body)
    IN IF ~st.has_compose
       THEN AddError(st.v, MsgName("App class {name} is missing 'compose' method",
                                   app_class.name))
       ELSE st.v

\* the test of the loop over node.bases: some base is an Attribute whose
\* value is the Name App or whose attr is App
IsAppBase(base) ==
    /\ base.kind = "Attribute"
    /\ \/ (base.value.kind = "Name" /\ base.value.id = "App")
       \/ base.attr = "App"

is_app_class(node) ==
    /\ node.kind = "ClassDef"
    /\ \E k \in 1..Len(node.bases) : IsAppBase(node.bases[k])

app_classes_of(tree) == SelectSeq(walk(tree), is_app_class)

NoAppClassMsg == Msg("No class inheriting from App found")

_validate_class_structure(v, tree) ==
    LET app_classes == app_classes_of(tree)
    IN IF app_classes = <<>>
       THEN Ok(AddError(v, NoAppClassMsg))
       ELSE Ok(FoldLeft(_validate_app_methods, v, app_classes))

DeprecatedMsg(attr) ==
    [Msg("Deprecated widget '{name}' found. Use '{use}' replacement instead")
        EXCEPT !.name = attr, !.use = attr]

_validate_widgets(v, tree) ==
    Ok(FoldLeft(LAMBDA acc, node :
                   IF /\ node.kind = "Attribute"
                      /\ node.value.kind = "Name"
                      /\ node.attr \in DEPRECATED_WIDGETS
                   THEN AddError(acc, DeprecatedMsg(node.attr))
                   ELSE acc,
                v, walk(tree)))

IsCompose(node) == node.kind = "FunctionDef" /\ node.name = <<"compose">>

IsYield(node) == node.kind = "Yield"

_check_widget_in_yield(v, node) ==
    IF node.kind = "Call" /\ node.func.kind = "Attribute"
    THEN LET widget_name == node.func.attr
         IN IF widget_name \in VALID_CONTAINERS THEN v
            ELSE IF widget_name \notin VALID_WIDGETS /\ widget_name \notin VALID_CONTAINERS
            THEN AddWarning(v, MsgName("Unknown widget or container: {name}", widget_name))
            ELSE v
    ELSE v

_validate_layouts(v, tree) ==
    LET composes == SelectSeq(walk(tree), IsCompose)
        yield_statements ==
            IF composes = <<>> THEN <<>>
            ELSE SelectSeq(walk(Head(composes)), IsYield)
        v1 == IF yield_statements = <<>>
              THEN AddWarning(v, Msg("No yield statements found in compose method"))
              ELSE v
    IN Ok(FoldLeft(LAMBDA acc, y :
                      IF y.value # None THEN _check_widget_in_yield(acc, y.value) ELSE acc,
                   v1, yield_statements))

\* node.name.startswith('on_')
IsHandlerName(name) == Len(name) >= 2 /\ name[1] = "on"

\* the loop filling event_handlers (a dict: a name written twice keeps its
\* first position and its last value, and all handlers of one name have the
\* same event type); st = [v, handlers]
_validate_event_handlers(v, tree) ==
    LET st == FoldLeft(LAMBDA acc, node :
                   IF node.kind = "FunctionDef" /\ IsHandlerName(node.name)
                   THEN LET parts == Tail(node.name)
                            h == IF Len(parts) >= 2
                                    /\ ~\E k \in 1..Len(acc.handlers) :
                                            acc.handlers[k] = node.name
                                 THEN Append(acc.handlers, node.name)
                                 ELSE acc.handlers
                            w == IF node.nargs = 0
                                 THEN AddWarning(acc.v,
                                        [Msg("Event handler '{handler}' should have event parameter")
                                            EXCEPT !.handler = node.name])
                                 ELSE acc.v
                        IN [v |-> w, handlers |-> h]
                   ELSE acc,
                 [v |-> v, handlers |-> <<>>], walk(tree))
    IN Ok(FoldLeft(LAMBDA acc, handler :
                      LET event_type == handler[2]
                      IN IF event_type \notin VALID_EVENTS
                         THEN AddWarning(acc,
                                [Msg("Unknown event type '{name}' in handler '{handler}'")
                                    EXCEPT !.name = event_type, !.handler = handler])
                         ELSE acc,
                   st.v, st.handlers))

\* str.strip() on a line of tokens: " " is the whitespace token
RECURSIVE lstrip(_)
lstrip(line) ==
    IF line # <<>> /\ Head(line) = " " THEN lstrip(Tail(line)) ELSE line

RECURSIVE rstrip(_)
rstrip(line) ==
    IF line # <<>> /\ line[Len(line)] = " "
    THEN rstrip(SubSeq(line, 1, Len(line) - 1)) ELSE line

strip(line) == rstrip(lstrip(line))

\* str.lower() on the tokens of the style language used here
lower(token) ==
    CASE token = "@IMPORT" -> "@import"
      [] token = "Screen" -> "screen"
      [] OTHER -> token

\* 'import' in line.lower()
HasImport(line) == \E k \in 1..Len(line) : lower(line[k]) = "@import"

\* one iteration of the loop over the lines; st = [v, i]
css_line_step(st, raw) ==
    LET line == strip(raw)
        i == st.i
        next == [st EXCEPT !.i = i + 1]
    IN IF line = <<>> \/ Head(line) = "/*" THEN next
       ELSE LET v1 == IF Count(line, "{") > 0 /\ Count(line, "}") = 0
                      THEN AddError(st.v, MsgLine("Unclosed CSS block starting at line {line}", i))
                      ELSE st.v
                v2 == IF Count(line, "{") # Count(line, "}")
                      THEN AddError(v1, MsgLine("Mismatched braces in CSS at line {line}", i))
                      ELSE v1
                v3 == IF HasImport(line)
                      THEN AddError(v2, MsgLine(
                             "CSS import statement found at line {line} (not supported)", i))
                      ELSE v2
            IN [v |-> v3, i |-> i + 1]

\* css: the value of a Constant node; css.split raises on a non-string
_validate_css_content(v, css) ==
    IF css.type # "str"
    THEN Raise(v, "'int' object has no attribute 'split'")
    ELSE LET lines == css.lines
             st == FoldLeft(css_line_step, [v |-> v, i |-> 1], lines)
             has_theme == \E k \in 1..Len(lines) :
                             "quantum:" \in Range(lines[k]) \/ "dark:" \in Range(lines[k])
         IN Ok(IF ~has_theme
               THEN AddWarning(st.v, Msg("Consider defining 'quantum' or 'dark' theme variants"))
               ELSE st.v)

IsCssString(node) ==
    /\ node.kind = "Assign"
    /\ node.target.kind = "Name"
    /\ node.target.id = "CSS"
    /\ node.value.kind = "Constant"

\* the loop over css_strings; the first exception ends it
RECURSIVE css_loop(_, _)
css_loop(v, css_strings) ==
    IF css_strings = <<>> THEN Ok(v)
    ELSE LET r == _validate_css_content(v, Head(css_strings).value)
         IN IF r.exc # NoExc THEN r ELSE css_loop(r.v, Tail(css_strings))

_validate_css(v, tree) == css_loop(v, SelectSeq(walk(tree), IsCssString))

_check_compose_best_practices(v, compose_node) ==
    LET v1 == IF compose_node.returns = None
              THEN AddSuggestion(v, Msg("Add return type hint to compose method"))
              ELSE v
        yield_count == Len(SelectSeq(walk(compose_node), IsYield))
    IN IF yield_count < 2
       THEN AddWarning(v1, Msg("compose method should yield at least Header and Footer"))
       ELSE v1

_validate_best_practices(v, tree) ==
    Ok(FoldLeft(_check_compose_best_practices, v, SelectSeq(walk(tree), IsCompose)))

CachingMsg == Msg("Consider caching query_one results to avoid repeated DOM queries")

\* the loop over ast.walk; node.func.value.id raises AttributeError when the
\* receiver of query_one is not a Name; st = [v, query_count]
RECURSIVE performance_loop(_, _)
performance_loop(st, nodes) ==
    IF nodes = <<>> THEN [v |-> st.v, query_count |-> st.query_count, exc |-> NoExc]
    ELSE LET node == Head(nodes)
         IN IF node.kind = "Call" /\ node.func.kind = "Attribute"
               /\ node.func.attr = "query_one"
            THEN IF node.func.value.kind # "Name"
                 THEN [v |-> st.v, query_count |-> st.query_count + 1,
                       exc |-> "'Attribute' object has no attribute 'id'"]
                 ELSE performance_loop(
                        [v |-> IF node.func.value.id = "self"
                               THEN AddSuggestion(st.v, CachingMsg) ELSE st.v,
                         query_count |-> st.query_count + 1],
                        Tail(nodes))
            ELSE performance_loop(st, Tail(nodes))

QueryLimit == 5

_validate_performance(v, tree) ==
    LET r == performance_loop([v |-> v, query_count |-> 0], walk(tree))
    IN IF r.exc # NoExc THEN Raise(r.v, r.exc)
       ELSE Ok(IF r.query_count > QueryLimit
               THEN AddWarning(r.v, [Msg("Found {line} query_one calls. Consider caching results.")
                                        EXCEPT !.line = r.query_count])
               ELSE r.v)

(***************************************************************************)
(* Auto-fix engine                                                         *)
(***************************************************************************)
\* line.startswith('from textual.app import')
StartsWithAppImport(line) ==
    line.stmt.kind = "ImportFrom" /\ line.stmt.module = <<"textual", "app">>

\* 'ComposeResult' in line
MentionsComposeResult(line) ==
    \/ line.stmt.kind \in {"ImportFrom", "Import"} /\ "ComposeResult" \in Range(line.stmt.names)
    \/ "ComposeResult" \in Range(line.comment)

\* line + ', ComposeResult': the text lands in the trailing comment when the
\* line has one, in the imported names otherwise
AppendComposeResult(line) ==
    IF line.comment # <<>>
    THEN [line EXCEPT !.comment = @ \o <<",", "ComposeResult">>]
    ELSE [line EXCEPT !.stmt.names = Append(@, "ComposeResult")]

InsertedImportLine == Line(ImportFrom(<<"textual", "app">>, <<"App", "ComposeResult">>), <<>>)

\* a repair that appends to the import line without looking at it
_fix_missing_imports_Unguarded(lines) ==
    LET hits == {k \in 1..Len(lines) : StartsWithAppImport(lines[k])}
    IN IF hits = {}
       THEN <<InsertedImportLine>> \o lines
       ELSE LET import_line_idx == CHOOSE k \in hits : \A j \in hits : k <= j
            IN [lines EXCEPT ![import_line_idx] = AppendComposeResult(@)]

_fix_missing_imports(lines) ==
    LET hits == {k \in 1..Len(lines) : StartsWithAppImport(lines[k])}
    IN IF hits = {}
       THEN <<InsertedImportLine>> \o lines
       ELSE LET import_line_idx == CHOOSE k \in hits : \A j \in hits : k <= j
            IN IF ~MentionsComposeResult(lines[import_line_idx])
               THEN [lines EXCEPT ![import_line_idx] = AppendComposeResult(@)]
               ELSE lines

\* 'Missing required import' in error
IsMissingImport(error) == error.text = MissingImportMsg.text

\* a fix that drops only the missing-import errors from the error list
_attempt_fixes_KeepOthers(v, file) ==
    LET original_content == file.content
        content == FoldLeft(LAMBDA c, error :
                               IF IsMissingImport(error) THEN _fix_missing_imports(c) ELSE c,
                            original_content, v.errors)
    IN IF content # original_content
       THEN IF file.writable
            THEN [v |-> [v EXCEPT !.fixes_applied = Append(@, "Fixed missing imports"),
                                  !.errors = SelectSeq(@, LAMBDA e : ~IsMissingImport(e)),
                                  !.warnings = Append(@, Msg("Auto-fixes applied. Re-run validation."))],
                  file |-> [file EXCEPT !.content = content, !.writes = @ + 1]]
            ELSE [v |-> AddError(v, MsgName("Failed to apply fixes: {name}", "Permission denied")),
                  file |-> file]
       ELSE [v |-> v, file |-> file]

\* a file (see File below): kind "missing" (a path that does not exist, such
\* as a dangling link found by the directory scan), "unreadable" (open or
\* read raises) or "text"; writable: open(path, 'w') succeeds; writes: the
\* number of times the file was written.
\* _attempt_fixes returns the validator's fields and the file
_attempt_fixes(v, file) ==
    LET original_content == file.content
        content == FoldLeft(LAMBDA c, error :
                               IF IsMissingImport(error) THEN _fix_missing_imports(c) ELSE c,
                            original_content, v.errors)
    IN IF content # original_content
       THEN IF file.writable
            THEN [v |-> [v EXCEPT !.fixes_applied = Append(@, "Fixed missing imports"),
                                  !.errors = <<>>,
                                  !.warnings = Append(@, Msg("Auto-fixes applied. Re-run validation."))],
                  file |-> [file EXCEPT !.content = content, !.writes = @ + 1]]
            ELSE [v |-> AddError(v, MsgName("Failed to apply fixes: {name}", "Permission denied")),
                  file |-> file]
       ELSE [v |-> v, file |-> file]

(***************************************************************************)
(* TextualValidator.validate_file and print_report                         *)
(***************************************************************************)
SubPasses ==
    <<"_validate_imports", "_validate_class_structure", "_validate_widgets",
      "_validate_layouts", "_validate_event_handlers", "_validate_css",
      "_validate_best_practices", "_validate_performance">>

RunSubPass(p, v, tree) ==
    CASE p = "_validate_imports" -> _validate_imports(v, tree)
      [] p = "_validate_class_structure" -> _validate_class_structure(v, tree)
      [] p = "_validate_widgets" -> _validate_widgets(v, tree)
      [] p = "_validate_layouts" -> _validate_layouts(v, tree)
      [] p = "_validate_event_handlers" -> _validate_event_handlers(v, tree)
      [] p = "_validate_css" -> _validate_css(v, tree)
      [] p = "_validate_best_practices" -> _validate_best_practices(v, tree)
      [] p = "_validate_performance" -> _validate_performance(v, tree)

\* lines 126-133: the sub-passes in order, up to the first exception;
\* called: the sub-passes that were called
RECURSIVE RunSubPasses(_, _, _, _)
RunSubPasses(ps, v, tree, called) ==
    IF ps = <<>> THEN [v |-> v, exc |-> NoExc, called |-> called]
    ELSE LET r == RunSubPass(Head(ps), v, tree)
         IN IF r.exc # NoExc
            THEN [v |-> r.v, exc |-> r.exc, called |-> Append(called, Head(ps))]
            ELSE RunSubPasses(Tail(ps), r.v, tree, Append(called, Head(ps)))

\* a verdict that warnings fail as well
Verdict_Strict(v) == Len(v.errors) = 0 /\ Len(v.warnings) = 0

\* the verdict returned at line 138
Verdict(v) == Len(v.errors) = 0

\* the result of validate_file: the validator's fields at return, the value
\* returned, the file afterwards, the sub-passes called, the errors recorded
\* when the sub-passes had ended, and whether _attempt_fixes was called
Returned(v, ret, file, called, found, fixing) ==
    [v |-> v, ret |-> ret, file |-> file, called |-> called, found |-> found,
     fixing |-> fixing]

\* the fixes attempted whether or not fix mode is on
after_checks_FixAnyway(r, file, fix) ==
    IF r.exc # NoExc
    THEN Returned(AddError(r.v, MsgName("Validation error: {name}", r.exc)),
                  FALSE, file, r.called, r.v.errors, FALSE)
    ELSE IF r.v.errors # <<>>
    THEN LET f == _attempt_fixes(r.v, file)
         IN Returned(f.v, Verdict(f.v), f.file, r.called, r.v.errors, TRUE)
    ELSE Returned(r.v, Verdict(r.v), file, r.called, r.v.errors, FALSE)

\* lines 126-138 once the sub-passes have ended (r: the result of
\* RunSubPasses): an exception goes to the handler of lines 143-145,
\* otherwise the fixes and the verdict
after_checks(r, file, fix) ==
    IF r.exc # NoExc
    THEN Returned(AddError(r.v, MsgName("Validation error: {name}", r.exc)),
                  FALSE, file, r.called, r.v.errors, FALSE)
    ELSE IF fix /\ r.v.errors # <<>>
    THEN LET f == _attempt_fixes(r.v, file)
         IN Returned(f.v, Verdict(f.v), f.file, r.called, r.v.errors, TRUE)
    ELSE Returned(r.v, Verdict(r.v), file, r.called, r.v.errors, FALSE)

\* lines 124-138: the tree, the sub-passes, the fixes and the verdict
run_checks(v, file, fix) ==
    after_checks(RunSubPasses(SubPasses, v, parse(file.content), <<>>), file, fix)

SyntaxErrorMsg == MsgName("Syntax error: {name}", "invalid syntax")

\* the handlers in the other order: a SyntaxError is caught as an Exception
validate_file_OneHandler(v, file, fix) ==
    IF file.kind = "missing"
    THEN Returned(AddError(v, Msg("File not found: {file_path}")),
                  FALSE, file, <<>>, <<>>, FALSE)
    ELSE IF file.kind = "unreadable"
    THEN Returned(AddError(v, MsgName("Validation error: {name}", "cannot read file")),
                  FALSE, file, <<>>, <<>>, FALSE)
    ELSE IF SyntaxErrorIn(file.content)
    THEN Returned(AddError(v, MsgName("Validation error: {name}", "invalid syntax")),
                  FALSE, file, <<>>, <<>>, FALSE)
    ELSE run_checks(v, file, fix)

validate_file(v, file, fix) ==
    IF file.kind = "missing"
    THEN Returned(AddError(v, Msg("File not found: {file_path}")),
                  FALSE, file, <<>>, <<>>, FALSE)
    ELSE IF file.kind = "unreadable"
    THEN Returned(AddError(v, MsgName("Validation error: {name}", "cannot read file")),
                  FALSE, file, <<>>, <<>>, FALSE)
    ELSE IF SyntaxErrorIn(file.content)
    THEN Returned(AddError(v, SyntaxErrorMsg), FALSE, file, <<>>, <<>>, FALSE)
    ELSE run_checks(v, file, fix)

\* print_report: the numbered lists that are printed, the verdict line and
\* whether the performance tips follow
NoReport == [printed |-> FALSE]

print_report(v) ==
    [printed |-> TRUE,
     errors |-> v.errors, warnings |-> v.warnings,
     suggestions |-> v.suggestions, fixes_applied |-> v.fixes_applied,
     verdict |-> IF v.errors = <<>> THEN "VALIDATION PASSED" ELSE "VALIDATION FAILED",
     tips |-> v.suggestions # <<>>]

(***************************************************************************)
(* The source files the validator is run on                                *)
(***************************************************************************)
TextualApp == <<"textual", "app">>

\* the import lines at the top of a file
ImportShapes ==
    { <<>>,
      <<Line(ImportFrom(TextualApp, <<"App">>), <<>>)>>,
      <<Line(ImportFrom(TextualApp, <<"App", "ComposeResult">>), <<>>)>>,
      <<Line(ImportFrom(TextualApp, <<"ComposeResult">>), <<>>)>>,
      <<Line(ImportFrom(TextualApp, <<"Screen">>), <<>>)>>,
      <<Line(ImportFrom(TextualApp, <<"Screen">>), <<"#", "screens">>)>>,
      <<Line(Import(<<"textual.app">>), <<>>),
        Line(ImportFrom(<<"textual", "widgets">>, <<"Button">>), <<>>)>>,
      <<Line(Import(<<"os">>), <<>>),
        Line(ImportFrom(TextualApp, <<"Screen">>), <<>>)>> }

\* the base of the file's class
BaseShapes ==
    { Name("App"),                                            \* class MyApp(App)
      Attribute(Attribute(Name("textual"), "app"), "App"),    \* (textual.app.App)
      Attribute(Name("App"), "Inner"),                        \* (App.Inner)
      Name("Widget") }                                        \* (Widget)

\* the base expressions that refer to the application base type App
RefersToApp(base) ==
    \/ base.kind = "Name" /\ base.id = "App"
    \/ base.kind = "Attribute" /\ base.attr = "App"

Widgets(w) == Call(Attribute(Name("widgets"), w))

YieldStmt(call) == Expr(Yield(call))

\* the compose method of the class, if any
ComposeShapes ==
    { <<>>,
      \* def compose(self): yield Button("x")
      <<FunctionDef(<<"compose">>, 1, None, <<YieldStmt(Call(Name("Button")))>>)>>,
      \* def compose(self) -> ComposeResult: two known widgets
      <<FunctionDef(<<"compose">>, 1, Name("ComposeResult"),
                    <<YieldStmt(Widgets("Button")), YieldStmt(Widgets("Container"))>>)>>,
      \* -> Iterable: a deprecated widget, an unknown widget written
      \* qualified, another written bare, and a bare yield
      <<FunctionDef(<<"compose">>, 1, Name("Iterable"),
                    <<YieldStmt(Widgets("FooterTui")), YieldStmt(Widgets("Custom")),
                      YieldStmt(Call(Name("Gadget"))), Expr(Yield(None))>>)>> }

QueryOne(receiver) == Expr(Call(Attribute(receiver, "query_one")))

CssAssign(value) == Assign(Name("CSS"), value)

\* the rest of the class: its CSS attribute and its handlers
RestShapes ==
    { <<>>,
      \* a style block with balanced braces over three lines after an import
      \* line, and on_key(self, event) with six query_one calls
      <<CssAssign(Constant("str",
            << <<>>,
               <<" ", "/*", "quantum:">>,
               <<"@IMPORT", " ", "x">>,
               <<"Screen", " ", "{">>,
               <<" ", "background: red;">>,
               <<"}">> >>)),
        FunctionDef(<<"on", "key">>, 2, None,
                    <<QueryOne(Name("self")), QueryOne(Name("self")),
                      QueryOne(Name("self")), QueryOne(Name("other")),
                      QueryOne(Name("self")), QueryOne(Name("self"))>>)>>,
      \* CSS = "Screen { background: red;" and on_mount() with a query_one
      \* call on self.screen
      <<CssAssign(Constant("str", << <<"Screen", " ", "{", " ", "background: red;">> >>)),
        FunctionDef(<<"on", "mount">>, 0, None,
                    <<QueryOne(Name("self")),
                      QueryOne(Attribute(Name("self"), "screen")),
                      QueryOne(Name("self"))>>)>>,
      \* CSS = "Screen { background: red; } /* dark: */", then CSS = 42,
      \* on_button_pressed(self, event), on_unmount(self) and
      \* on_custom_done(self, event)
      <<CssAssign(Constant("str",
            << <<"Screen", " ", "{", " ", "background: red;", " ", "}", " ", "dark:">> >>)),
        CssAssign(Constant("int", <<>>)),
        FunctionDef(<<"on", "button", "pressed">>, 2, None, <<QueryOne(Name("self"))>>),
        FunctionDef(<<"on", "unmount">>, 1, None, <<>>),
        FunctionDef(<<"on", "custom", "done">>, 2, None, <<>>)>> }

ClassLines ==
    { <<Line(ClassDef("MyApp", <<b>>, c \o r), <<>>)>> :
        b \in BaseShapes, c \in ComposeShapes, r \in RestShapes }

\* what follows the imports: one class, nothing, or text that does not parse
BodyShapes == ClassLines \cup { <<>>, <<Line(Bad, <<>>)>> }

File(kind, writable, content) ==
    [kind |-> kind, writable |-> writable, content |-> content, writes |-> 0]

NoFile == File("none", FALSE, <<>>)

MissingFile == File("missing", FALSE, <<>>)

\* the files a run can meet; whether the file can be opened for writing is
\* only looked at in fix mode
Files(fix) ==
    { File("text", w, i \o b) :
        w \in (IF fix THEN BOOLEAN ELSE {TRUE}), i \in ImportShapes, b \in BodyShapes }
    \cup { File("unreadable", FALSE, <<>>) }

(***************************************************************************)
(* main(): the command line run                                            *)
(***************************************************************************)
\* the largest number of files a directory scan finds
MaxFiles == 3

\* the largest number of runs of the command on the same file
MaxRuns == 2

\* the debugger's variables while the validator runs: no debugger run
NoArgs ==
    [app_file |-> "", live |-> FALSE, events |-> FALSE, inspect |-> FALSE,
     layout |-> FALSE, profile |-> FALSE, verbose |-> FALSE, log |-> "",
     output |-> ""]

NoTarget == [kind |-> "none"]

NoDebugger == [constructed |-> FALSE]

NoOutput ==
    [loaded |-> 0, ran |-> 0, ending |-> "", static_widgets |-> <<>>,
     layout |-> <<>>, printed |-> <<>>, reports |-> <<>>, logged |-> <<>>]

VARIABLES
    mode,           \* "file": args.file is given; "dir": args.dir is given
    fix,            \* args.fix
    run,            \* the number of this run of the command
    pc,             \* the position in main()
    total_files,    \* len(files_to_validate)
    idx,            \* the loop variable i
    passed,
    failed,
    file,           \* the file of the current iteration, as it is on disk
    validator,      \* the fields of the current TextualValidator
    is_valid,       \* the value validate_file returned
    called,         \* the sub-passes validate_file called, in order
    found,          \* the errors recorded when the sub-passes had ended
    fixing,         \* _attempt_fixes was called
    report,         \* what print_report printed for the current file
    exit_code,      \* the argument of sys.exit, -1 while running
    start,          \* the file as it was when this run began
    history,        \* one record per earlier run on the same file
    \* textual-debug.py (part 2); pc and exit_code are shared
    args,           \* the parsed command line of the debugger
    target,         \* the application file the debugger is pointed at
    debugger,       \* the fields of the TextualDebugger, once constructed
    wrapped,        \* the on_* attributes of the app replaced by traced handlers
    calls,          \* the handler calls made while the app ran
    out             \* what the debugger run did: loads, runs, reports, logs

vars == <<mode, fix, run, pc, total_files, idx, passed, failed, file, validator,
          is_valid, called, found, fixing, report, exit_code, start, history,
          args, target, debugger, wrapped, calls, out>>

\* the variables of the debugger run, which the validator run leaves alone
dvars == <<args, target, debugger, wrapped, calls, out>>

Running == -1

Init ==
    /\ mode \in {"file", "dir"}
    /\ fix \in BOOLEAN
    /\ run = 1
    /\ pc = "collect"
    /\ total_files = 0
    /\ idx = 0
    /\ passed = 0
    /\ failed = 0
    /\ file = NoFile
    /\ validator = NewValidator
    /\ is_valid = FALSE
    /\ called = <<>>
    /\ found = <<>>
    /\ fixing = FALSE
    /\ report = NoReport
    /\ exit_code = Running
    /\ start = NoFile
    /\ history = <<>>
    /\ args = NoArgs
    /\ target = NoTarget
    /\ debugger = NoDebugger
    /\ wrapped = {}
    /\ calls = <<>>
    /\ out = NoOutput

\* lines 582-607: files_to_validate.  In file mode the target is the file of
\* the only iteration; a target that does not exist ends the run with 1
\* (pc "abort": sys.exit before the loop).
CollectFile ==
    /\ pc = "collect"
    /\ mode = "file"
    /\ \E f \in (IF run = 1 THEN Files(fix) \cup {MissingFile} ELSE {file}) :
         /\ file' = f
         /\ start' = f
         /\ IF f.kind = "missing"
            THEN /\ exit_code' = 1
                 /\ pc' = "abort"
                 /\ UNCHANGED <<total_files, idx>>
            ELSE /\ total_files' = 1
                 /\ idx' = 1
                 /\ pc' = "new"
                 /\ UNCHANGED exit_code
    /\ passed' = 0
    /\ failed' = 0
    /\ UNCHANGED <<mode, fix, run, validator, is_valid, called, found, fixing,
                   report, history>>
    /\ UNCHANGED dvars

\* lines 590-607: a directory that does not exist ends the run with 1,
\* otherwise the scan finds n files
CollectDir ==
    /\ pc = "collect"
    /\ mode = "dir"
    /\ \/ /\ exit_code' = 1
          /\ pc' = "abort"
          /\ UNCHANGED <<total_files, idx>>
       \/ \E n \in 0..MaxFiles :
            /\ total_files' = n
            /\ idx' = 1
            /\ pc' = IF n = 0 THEN "summary" ELSE "new"
            /\ UNCHANGED exit_code
    /\ passed' = 0
    /\ failed' = 0
    /\ UNCHANGED <<mode, fix, run, file, validator, is_valid, called, found,
                   fixing, report, start, history>>
    /\ UNCHANGED dvars

\* an iteration whose validator starts with the errors of a list that all
\* instances share, filled by an earlier file that failed
NewIteration_Shared ==
    /\ pc = "new"
    /\ IF mode = "dir"
       THEN \E f \in Files(fix) \cup {MissingFile} : file' = f /\ start' = f
       ELSE UNCHANGED <<file, start>>
    /\ validator' = (IF failed > 0 THEN AddError(NewValidator, NoAppClassMsg)
                     ELSE NewValidator)
    /\ called' = <<>>
    /\ found' = <<>>
    /\ fixing' = FALSE
    /\ report' = NoReport
    /\ pc' = "validate"
    /\ UNCHANGED <<mode, fix, run, total_files, idx, passed, failed, is_valid,
                   exit_code, history>>
    /\ UNCHANGED dvars

\* lines 609-612: the next file of the list and a new validator for it
NewIteration ==
    /\ pc = "new"
    /\ IF mode = "dir"
       THEN \E f \in Files(fix) \cup {MissingFile} : file' = f /\ start' = f
       ELSE UNCHANGED <<file, start>>
    /\ validator' = NewValidator
    /\ called' = <<>>
    /\ found' = <<>>
    /\ fixing' = FALSE
    /\ report' = NoReport
    /\ pc' = "validate"
    /\ UNCHANGED <<mode, fix, run, total_files, idx, passed, failed, is_valid,
                   exit_code, history>>
    /\ UNCHANGED dvars

\* line 613
ValidateFile ==
    /\ pc = "validate"
    /\ \E r \in {validate_file(validator, file, fix)} :
          /\ validator' = r.v
          /\ is_valid' = r.ret
          /\ file' = r.file
          /\ called' = r.called
          /\ found' = r.found
          /\ fixing' = r.fixing
    /\ pc' = "report"
    /\ UNCHANGED <<mode, fix, run, total_files, idx, passed, failed, report,
                   exit_code, start, history>>
    /\ UNCHANGED dvars

\* line 615
PrintReport ==
    /\ pc = "report"
    /\ report' = print_report(validator)
    /\ pc' = "count"
    /\ UNCHANGED <<mode, fix, run, total_files, idx, passed, failed, file,
                   validator, is_valid, called, found, fixing, exit_code, start,
                   history>>
    /\ UNCHANGED dvars

\* lines 617-620 and the end of the iteration.  Nothing reads the validator
\* after its iteration: the model drops it, and in directory mode the file,
\* which the run does not visit again.  In file mode the run is recorded.
CountResult ==
    /\ pc = "count"
    /\ IF is_valid
       THEN passed' = passed + 1 /\ UNCHANGED failed
       ELSE failed' = failed + 1 /\ UNCHANGED passed
    /\ idx' = idx + 1
    /\ pc' = IF idx < total_files THEN "new" ELSE "summary"
    /\ history' = IF mode = "file"
                  THEN Append(history,
                              [fix |-> fix, found |-> found, before |-> start.content,
                               after |-> file.content,
                               wrote |-> file.writes > start.writes,
                               fixes_applied |-> validator.fixes_applied,
                               is_valid |-> is_valid])
                  ELSE history
    /\ file' = IF mode = "dir" THEN NoFile ELSE file
    /\ start' = IF mode = "dir" THEN NoFile ELSE start
    /\ validator' = NewValidator
    /\ called' = <<>>
    /\ found' = <<>>
    /\ fixing' = FALSE
    /\ report' = NoReport
    /\ UNCHANGED <<mode, fix, run, total_files, is_valid, exit_code>>
    /\ UNCHANGED dvars

\* an exit code taken from the number of passed files
Summary_ByPassed ==
    /\ pc = "summary"
    /\ exit_code' = IF passed > 0 THEN 0 ELSE 1
    /\ pc' = "exit"
    /\ UNCHANGED <<mode, fix, run, total_files, idx, passed, failed, file,
                   validator, is_valid, called, found, fixing, report, start,
                   history>>
    /\ UNCHANGED dvars

\* lines 622-631
Summary ==
    /\ pc = "summary"
    /\ exit_code' = IF failed = 0 THEN 0 ELSE 1
    /\ pc' = "exit"
    /\ UNCHANGED <<mode, fix, run, total_files, idx, passed, failed, file,
                   validator, is_valid, called, found, fixing, report, start,
                   history>>
    /\ UNCHANGED dvars

\* the command is run again on the same file, with or without --fix
Rerun ==
    /\ pc = "exit"
    /\ mode = "file"
    /\ file.kind = "text"
    /\ run < MaxRuns
    /\ run' = run + 1
    /\ fix' \in BOOLEAN
    /\ pc' = "collect"
    /\ exit_code' = Running
    /\ UNCHANGED <<mode, total_files, idx, passed, failed, file, validator,
                   is_valid, called, found, fixing, report, start, history>>
    /\ UNCHANGED dvars

Next ==
    \/ CollectFile
    \/ CollectDir
    \/ NewIteration
    \/ ValidateFile
    \/ PrintReport
    \/ CountResult
    \/ Summary
    \/ Rerun

Spec == Init /\ [][Next]_vars

(***************************************************************************)
(* Properties of the validator                                             *)
(***************************************************************************)
\* validate_file has returned for the file of the current iteration
AfterValidate == pc \in {"report", "count"}

\* the file of the current iteration was read and parsed
Parsed == start.kind = "text" /\ ~SyntaxErrorIn(start.content)

\* the auto-fix wrote the file in the current run
Rewritten == file.writes > start.writes

HasText(msgs, text) == \E k \in 1..Len(msgs) : msgs[k].text = text

HasMissingImport(msgs) == \E k \in 1..Len(msgs) : IsMissingImport(msgs[k])

OtherErrors(msgs) == SelectSeq(msgs, LAMBDA e : ~IsMissingImport(e))

RerunMsg == Msg("Auto-fixes applied. Re-run validation.")

\* C1: validate_file returns True, and print_report prints the PASSED
\* verdict, exactly when the error list is empty at the end of the run,
\* whatever the warnings and suggestions are.
C1_VerdictIsNoErrors ==
    /\ AfterValidate => (is_valid <=> validator.errors = <<>>)
    /\ report.printed =>
          (report.verdict = "VALIDATION PASSED" <=> validator.errors = <<>>)

\* a file passes and is reported as passed with warnings and suggestions
C1_Witness ==
    /\ pc = "count"
    /\ is_valid
    /\ report.printed
    /\ report.verdict = "VALIDATION PASSED"
    /\ validator.warnings # <<>>
    /\ validator.suggestions # <<>>

\* C2: after the loop Passed + Failed = Total, and the exit code is 0
\* exactly when no validated file failed, 1 otherwise.
C2_CountersAndExitCode ==
    /\ pc \in {"new", "validate", "report", "count"} => passed + failed = idx - 1
    /\ pc \in {"summary", "exit"} => passed + failed = total_files
    /\ pc = "exit" => exit_code = (IF failed = 0 THEN 0 ELSE 1)

\* three files of which exactly one fails
C2_Witness ==
    /\ pc = "exit"
    /\ total_files = 3
    /\ passed = 2
    /\ failed = 1
    /\ exit_code = 1

\* C3: when _attempt_fixes runs on an error list holding the missing-import
\* error together with other errors, the other errors are still in the
\* error list afterwards and validate_file returns False.
C3_OtherErrorsUntouched ==
    (AfterValidate /\ fixing /\ HasMissingImport(found) /\ OtherErrors(found) # <<>>)
        => /\ OtherErrors(validator.errors) = OtherErrors(found)
           /\ ~is_valid

\* C4: validation with auto-fix of a (writable) file whose only error is the
\* missing base import rewrites the file, and a fresh validation of the
\* rewritten file does not report the missing import.
C4_FixRepairsMissingImport ==
    (AfterValidate /\ fix /\ file.writable /\ found = <<MissingImportMsg>>)
        => /\ Rewritten
           /\ ~HasMissingImport(validate_file(NewValidator, file, FALSE).v.errors)

\* some earlier run of the command rewrote the file
RewrittenEarlier == \E k \in 1..Len(history) : history[k].wrote

\* C5: a run with auto-fix on a file that an earlier auto-fix run has
\* rewritten leaves the file as it is and records no FixRecord.
C5_SecondFixIsNoOp ==
    (AfterValidate /\ fix /\ RewrittenEarlier)
        => /\ file = start
           /\ validator.fixes_applied = <<>>

\* the second run still finds errors and calls _attempt_fixes
C5_Witness ==
    /\ AfterValidate
    /\ fix
    /\ RewrittenEarlier
    /\ fixing
    /\ HasMissingImport(found)

\* C6: when the auto-fix rewrites the file, the error list is cleared, one
\* FixRecord is appended, the re-run warning is appended last, and
\* validate_file returns True; every sub-pass was called once, and the
\* other warnings are those of the text read before the rewrite.
C6_RewriteClearsErrors ==
    (AfterValidate /\ Rewritten)
        => /\ validator.errors = <<>>
           /\ validator.fixes_applied = <<"Fixed missing imports">>
           /\ validator.warnings =
                 Append(validate_file(NewValidator, start, FALSE).v.warnings, RerunMsg)
           /\ is_valid
           /\ called = SubPasses
           /\ file.writes = start.writes + 1

\* the file is rewritten while other errors were found
C6_Witness ==
    /\ AfterValidate
    /\ Rewritten
    /\ OtherErrors(found) # <<>>

\* no class of the text has a base that refers to App
NoAppClassIn(content) ==
    \A k \in 1..Len(content) :
        content[k].stmt.kind = "ClassDef" =>
            ~\E b \in 1..Len(content[k].stmt.bases) : RefersToApp(content[k].stmt.bases[b])

\* the messages of _validate_app_methods
AppMethodTexts ==
    {"App class {name} is missing 'compose' method",
     "Method 'compose' in {name} should have return type hint (ComposeResult)",
     "Method 'compose' in {name} should return ComposeResult",
     "Consider using BINDINGS instead of on_key in {name}"}

NoneFrom(msgs, texts) == \A k \in 1..Len(msgs) : msgs[k].text \notin texts

\* C7: for a parseable file with no class deriving from App, the
\* structural pass records exactly one error, that no App class was found,
\* and checks no class methods.
C7_NoAppClassOneError ==
    (AfterValidate /\ Parsed /\ NoAppClassIn(start.content))
        => /\ Count(found, NoAppClassMsg) = 1
           /\ NoneFrom(found, AppMethodTexts)
           /\ NoneFrom(validator.warnings, AppMethodTexts)
           /\ NoneFrom(validator.suggestions, AppMethodTexts)

\* class MyApp(App) whose only member is compose yielding Button("x")
ExampleClass ==
    ClassDef("MyApp", <<Name("App")>>,
             <<FunctionDef(<<"compose">>, 1, None, <<YieldStmt(Call(Name("Button")))>>)>>)

IsExampleFile(content) ==
    /\ \E k \in 1..Len(content) : content[k].stmt = ExampleClass
    /\ \A k \in 1..Len(content) :
          content[k].stmt.kind = "ClassDef" => content[k].stmt = ExampleClass

\* C8: for the file whose only class is MyApp(App) with compose yielding
\* Button("x"), the structural pass records no error, no unknown-widget
\* warning is recorded, and the Header-and-Footer warning is recorded.
C8_BareAppExample ==
    (AfterValidate /\ Parsed /\ IsExampleFile(start.content))
        => /\ ~HasText(found, NoAppClassMsg.text)
           /\ ~HasText(found, "App class {name} is missing 'compose' method")
           /\ ~HasText(validator.warnings, "Unknown widget or container: {name}")
           /\ HasText(validator.warnings,
                      "compose method should yield at least Header and Footer")

\* C9: an exception raised inside a sub-pass does not leave it: every
\* sub-pass of a parsed file is called, and no error of the file stems from
\* an exception.
C9_ExceptionsStayInPass ==
    (AfterValidate /\ Parsed)
        => /\ called = SubPasses
           /\ ~HasText(validator.errors, "Validation error: {name}")

\* the file of the current iteration does not parse
ParseFailed == start.kind = "text" /\ SyntaxErrorIn(start.content)

C10_State ==
    (AfterValidate /\ ParseFailed)
        => /\ validator = [NewValidator EXCEPT !.errors = <<SyntaxErrorMsg>>]
           /\ called = <<>>
           /\ ~fixing
           /\ file = start
           /\ ~is_valid

C10_Step ==
    (pc = "count" /\ ParseFailed)
        => /\ failed' = failed + 1
           /\ passed' = passed
           /\ idx' = idx + 1
           /\ pc' = IF idx < total_files THEN "new" ELSE "summary"

\* C10: when the text does not parse, validation records the one error
\* with the parser's message, calls no sub-pass, produces no warning,
\* suggestion or FixRecord, leaves the file alone and returns False; the
\* file is counted as failed and the loop goes on to the next file.
C10_ParseFailure == [](C10_State) /\ [][C10_Step]_vars

\* a file that does not parse, in fix mode, with files left in the scan
C10_Witness ==
    /\ pc = "count"
    /\ ParseFailed
    /\ fix
    /\ mode = "dir"
    /\ idx < total_files
    /\ validator.errors = <<SyntaxErrorMsg>>

\* the style blocks of the text: the string constants assigned to CSS
CssBlocks(content) ==
    LET assigns == SelectSeq(walk(parse(content)), IsCssString)
    IN SelectSeq([k \in 1..Len(assigns) |-> assigns[k].value],
                 LAMBDA c : c.type = "str")

\* the number of tokens b in the whole block
RECURSIVE Braces(_, _)
Braces(lines, b) ==
    IF lines = <<>> THEN 0 ELSE Count(Head(lines), b) + Braces(Tail(lines), b)

\* the text has one style block, whose only brace is an opening one, and no
\* import-like keyword
OneUnclosedBrace(content) ==
    LET blocks == CssBlocks(content)
    IN /\ Len(blocks) = 1
       /\ Braces(blocks[1].lines, "{") = 1
       /\ Braces(blocks[1].lines, "}") = 0
       /\ \A k \in 1..Len(blocks[1].lines) : ~HasImport(blocks[1].lines[k])

\* the line of the block that holds the opening brace
BraceLine(content) ==
    LET lines == CssBlocks(content)[1].lines
    IN CHOOSE k \in 1..Len(lines) : Count(lines[k], "{") = 1

CssErrorTexts ==
    {"Unclosed CSS block starting at line {line}",
     "Mismatched braces in CSS at line {line}",
     "CSS import statement found at line {line} (not supported)"}

CssErrors(msgs) == SelectSeq(msgs, LAMBDA e : e.text \in CssErrorTexts)

\* C18: a style block with one opening brace that is never closed produces
\* exactly one error, and that error cites the line of the brace.
C18_OneErrorForUnclosedBrace ==
    (AfterValidate /\ Parsed /\ OneUnclosedBrace(start.content))
        => /\ Len(CssErrors(found)) = 1
           /\ CssErrors(found)[1].line = BraceLine(start.content)

\* the deprecated identifiers the text uses, qualified or bare
DeprecatedUses(content) ==
    LET nodes == walk(parse(content))
    IN ({ n.attr : n \in {m \in Range(nodes) : m.kind = "Attribute"} }
           \cup { n.id : n \in {m \in Range(nodes) : m.kind = "Name"} })
       \cap DEPRECATED_WIDGETS

\* line 68: the old names are replaced with Footer and Header
ReplacementOf(widget) == IF widget = "FooterTui" THEN "Footer" ELSE "Header"

\* C19: every deprecated widget identifier the text uses produces an error
\* whose message names the replacement, and the file fails.
C19_DeprecatedNamesReplacement ==
    (AfterValidate /\ Parsed)
        => \A d \in DeprecatedUses(start.content) :
              /\ \E k \in 1..Len(found) :
                    /\ found[k].text = DeprecatedMsg(d).text
                    /\ found[k].use = ReplacementOf(d)
              /\ ~is_valid

(***************************************************************************)
(* Part 2: the debugger, textual-plugin/helpers/textual-debug.py: the      *)
(* widget-tree snapshot of a live app, the TextualDebugger class (event    *)
(* tracing, the final report), the static analysis of an app file and the  *)
(* command line of main().                                                 *)
(*                                                                         *)
(* A live widget is a record of what the reflection of the walk reads: its *)
(* class name, its identity id(node), its id attribute ("" for None), its  *)
(* child list                                                              *)
(* _nodes, and `fault`, the attribute whose read raises ("" for none).     *)
(***************************************************************************)
\* f"{widget_type}_{id(node)}" (line 112), f"{widget_type}_{node.lineno}"
\* (line 550)
WidgetName(type, ident) == [type |-> type, ident |-> ident]

\* the dataclass of lines 55-65
WidgetInfo(name, type, id, parent, children) ==
    [name |-> name, type |-> type, id |-> id, classes |-> <<>>,
     parent |-> parent, children |-> children, visible |-> TRUE]

Widget(type, oid, id, fault, nodes) ==
    [type |-> type, oid |-> oid, id |-> id, fault |-> fault, nodes |-> nodes]

NamesOf(widgets) == [k \in 1..Len(widgets) |-> widgets[k].name]

\* lines 114-128 for a node whose descendants gave `below`: the node's
\* WidgetInfo, whose children list was extended by the names of all of
\* child_widgets for each child, and then the descendants
extracted(node, parent, below) ==
    <<WidgetInfo(WidgetName(node.type, node.oid), node.type, node.id, parent,
                 NamesOf(below))>> \o below

RECURSIVE _extract_widgets_from_node(_, _)
RECURSIVE child_widgets_NoParent(_, _)
RECURSIVE child_widgets(_, _)
RECURSIVE child_widgets_StopAtFailure(_, _)

\* a loop that passes no parent down
child_widgets_NoParent(nodes, widget_name) ==
    IF nodes = <<>> THEN <<>>
    ELSE _extract_widgets_from_node(Head(nodes), None)
            \o child_widgets_NoParent(Tail(nodes), widget_name)

\* a loop that a child's failure ends
child_widgets_StopAtFailure(nodes, widget_name) ==
    IF nodes = <<>> THEN <<>>
    ELSE LET first == _extract_widgets_from_node(Head(nodes), widget_name)
         IN IF first = <<>> THEN <<>>
            ELSE first \o child_widgets_StopAtFailure(Tail(nodes), widget_name)

\* the loop of lines 125-127: widgets.extend(child_widgets) for every child
child_widgets(nodes, widget_name) ==
    IF nodes = <<>> THEN <<>>
    ELSE _extract_widgets_from_node(Head(nodes), widget_name)
            \o child_widgets(Tail(nodes), widget_name)

\* lines 106-133.  fault "classes": list(getattr(node, 'classes', []))
\* raises before the node is appended; fault "_nodes": reading node._nodes
\* raises after it.  The exception is caught in the same call (line 130).
_extract_widgets_from_node(node, parent) ==
    IF node.fault = "classes" THEN <<>>
    ELSE extracted(node, parent,
                   IF node.fault = "_nodes" THEN <<>>
                   ELSE child_widgets(node.nodes, WidgetName(node.type, node.oid)))

\* lines 92-103.  app_instance.context: hasattr(app, '_context') and the
\* attribute is truthy; app_instance.screen: the screen, or NoScreen when
\* the read of app.screen raises (caught at line 100)
NoScreen == [type |-> "", oid |-> 0, id |-> "", fault |-> "screen", nodes |-> <<>>]

get_widget_tree(app_instance) ==
    IF app_instance.context /\ app_instance.screen # NoScreen
    THEN _extract_widgets_from_node(app_instance.screen, None)
    ELSE <<>>

\* format_widget_tree, lines 136-175: the rendered lines, each the depth of
\* its indent and the widget it shows
MaxRenderDepth == 5

\* widget_map[name]: the last widget of that name
widget_map(widgets, name) ==
    widgets[CHOOSE k \in 1..Len(widgets) :
                /\ widgets[k].name = name
                /\ \A j \in (k + 1)..Len(widgets) : widgets[j].name # name]

InMap(widgets, name) == \E k \in 1..Len(widgets) : widgets[k].name = name

RECURSIVE render_widget(_, _, _)
RECURSIVE render_children(_, _, _)
render_children(children, depth, widgets) ==
    IF children = <<>> THEN <<>>
    ELSE (IF InMap(widgets, Head(children))
          THEN render_widget(widget_map(widgets, Head(children)), depth, widgets)
          ELSE <<>>)
         \o render_children(Tail(children), depth, widgets)

render_widget(widget, depth, widgets) ==
    IF depth > MaxRenderDepth THEN <<>>
    ELSE <<[depth |-> depth, type |-> widget.type, id |-> widget.id]>>
            \o render_children(widget.children, depth + 1, widgets)

RECURSIVE render_roots(_, _)
render_roots(roots, widgets) ==
    IF roots = <<>> THEN <<>>
    ELSE render_widget(Head(roots), 0, widgets) \o render_roots(Tail(roots), widgets)

IsRootIn(widgets, w) == w.parent = None \/ ~InMap(widgets, w.parent)

format_widget_tree(widgets) ==
    IF widgets = <<>> THEN <<"No widgets found">>
    ELSE render_roots(SelectSeq(widgets, LAMBDA w : IsRootIn(widgets, w)), widgets)

\* analyze_layout, lines 269-317
ContainerTypes == {"Container", "Horizontal", "Vertical", "Grid"}

ManyWidgets == 5

NestingLimit == 5

\* the while loop of lines 298-301, from a parent name on
RECURSIVE depth_from(_, _, _)
depth_from(parent, depth, widgets) ==
    IF parent = None THEN depth
    ELSE depth_from(IF InMap(widgets, parent)
                    THEN widgets[CHOOSE k \in 1..Len(widgets) :
                                    /\ widgets[k].name = parent
                                    /\ \A j \in 1..(k - 1) : widgets[j].name # parent].parent
                    ELSE None,
                    depth + 1, widgets)

\* lines 293-302
RECURSIVE max_depth(_, _)
max_depth(todo, widgets) ==
    IF todo = <<>> THEN 0
    ELSE LET rest == max_depth(Tail(todo), widgets)
             depth == IF Head(todo).parent # None
                      THEN depth_from(Head(todo).parent, 1, widgets) ELSE 0
         IN IF depth > rest THEN depth ELSE rest

\* line 282: widgets_without_containers > 5 compares a list with an int,
\* which raises TypeError whatever the list holds
list_gt_int(list, n) == [exc |-> "TypeError", value |-> FALSE]

\* what analyze_layout returns: the exception it raises or the warnings
\* among its lines and the depth it reports
LayoutResult(exc, warnings, depth) ==
    [exc |-> exc, warnings |-> warnings, max_depth |-> depth]

layout_lines(many, depth) ==
    LayoutResult("",
        (IF many THEN <<"Many widgets without containers may cause layout issues">>
         ELSE <<>>)
        \o (IF depth > NestingLimit
            THEN <<"Deep nesting may impact performance">> ELSE <<>>),
        depth)

analyze_layout(widgets) ==
    LET containers == SelectSeq(widgets, LAMBDA w : w.type \in ContainerTypes)
        \* w.type not in containers: a str is never in a list of WidgetInfo
        widgets_without_containers == widgets
        many == list_gt_int(widgets_without_containers, ManyWidgets)
    IN IF many.exc # NoExc THEN LayoutResult(many.exc, <<>>, 0)
       ELSE layout_lines(many.value, max_depth(widgets, widgets))

\* extract_widgets_from_ast, lines 539-558; a call node of the debugger's
\* sources carries its line number
CallAt(func, lineno) == [kind |-> "Call", func |-> func, lineno |-> lineno]

StaticWidgetTypes == {"Container", "Button", "Label", "Input", "Static"}

IsStaticWidget(node) ==
    /\ node.kind = "Call"
    /\ node.func.kind = "Attribute"
    /\ node.func.attr \in StaticWidgetTypes

extract_widgets_from_ast(ast_tree) ==
    LET hits == SelectSeq(walk(ast_tree), IsStaticWidget)
    IN [k \in 1..Len(hits) |->
           WidgetInfo(WidgetName(hits[k].func.attr, hits[k].lineno),
                      hits[k].func.attr, "", None, <<>>)]

\* EventInfo, lines 68-75
EventInfo(event_type, timestamp, source) ==
    [event_type |-> event_type, timestamp |-> timestamp, source |-> source,
     target |-> "app"]

\* TextualDebugger.__init__, lines 424-431; now: the reading of time.time()
TextualDebugger(now) ==
    [constructed |-> TRUE, events_log |-> <<>>, widgets |-> <<>>,
     performance_metrics |-> <<>>, start_time |-> now]

\* _trace_event, lines 469-482; now: the reading of time.time()
_trace_event(dbg, event_type, event, now) ==
    [dbg EXCEPT !.events_log =
                    Append(@, EventInfo(event_type, now - dbg.start_time, event))]

\* the outcome of a call of an attribute of the app: the exception raised,
\* the argument lists the app's original method was invoked with, the
\* value returned and the entries the call added to the debugger's log
CallResult(raised, invoked, returned) ==
    [raised |-> raised, invoked |-> invoked, returned |-> returned]

\* the app's own method h called with call_args
call_original(h, call_args) ==
    IF Len(call_args) = (IF h.takes_event THEN 1 ELSE 0)
    THEN CallResult(NoExc, <<call_args>>, h.result)
    ELSE CallResult("TypeError", <<>>, "None")

\* handler(self, event) of lines 462-464, bound to the app at line 467: its
\* self is the app, so self._trace_event is looked up on the app
traced_handler(app, h, call_args) ==
    IF Len(call_args) # 1 THEN CallResult("TypeError", <<>>, "None")
    ELSE IF ~app.own_trace THEN CallResult("AttributeError", <<>>, "None")
    ELSE call_original(h, call_args)

\* PerformanceMetric, lines 78-85 (the call count and the times per call,
\* which are rendered but nothing compares, are left out)
PerformanceMetric(function_name, cumulative_time) ==
    [function_name |-> function_name, cumulative_time |-> cumulative_time]

\* generate_debug_report, lines 378-414 (errors are not passed by the
\* debugger): the rendered tree, the rendered events and the rendered
\* metrics
RecentEvents == 20

TopMetrics == 10

\* events[-n:]
LastOf(events, n) ==
    SubSeq(events, IF Len(events) > n THEN Len(events) - n + 1 ELSE 1, Len(events))

\* metrics[:n]
FirstOf(metrics, n) ==
    SubSeq(metrics, 1, IF Len(metrics) > n THEN n ELSE Len(metrics))

generate_debug_report(widgets, events, metrics) ==
    [tree |-> IF widgets # <<>> THEN format_widget_tree(widgets) ELSE <<>>,
     events |-> LastOf(events, RecentEvents),
     metrics |-> FirstOf(metrics, TopMetrics)]

\* the except clauses of start_debugging, lines 442-446: what is done with
\* an exception that leaves the try block
except_clause_AllLogged(exc) == "log"

except_clause(exc) == IF exc = "KeyboardInterrupt" THEN "report" ELSE "log"

\* a line printed for an exception; trace: traceback.print_exc() follows
Logged(text, exc, trace) == [text |-> text, exc |-> exc, trace |-> trace]

\* a block of output: what it is and the lines in it
AddPrinted(o, what, lines) ==
    [o EXCEPT !.printed = Append(@, [what |-> what, lines |-> lines])]

AddLogged(o, entry) == [o EXCEPT !.logged = Append(@, entry)]

\* _generate_final_report, lines 484-499: the report is built, then
\* written to the log file (open raises when log is "denied") or printed
_generate_final_report(dbg, log, o) ==
    LET text == generate_debug_report(dbg.widgets, dbg.events_log,
                                      dbg.performance_metrics)
        built == [o EXCEPT !.reports = Append(@, text)]
    IN IF log = "denied" THEN [out |-> built, exc |-> "PermissionError"]
       ELSE [out |-> AddPrinted(built, IF log = "" THEN "report" ELSE "report saved", <<>>),
             exc |-> NoExc]

\* start_debugging from the moment exc leaves the try block (lines 442-446),
\* and run_live_debug's handler (lines 596-598) for what leaves the clause
start_debugging_except(dbg, log, o, exc) ==
    IF except_clause(exc) = "report"
    THEN LET r == _generate_final_report(dbg, log, o)
         IN IF r.exc # NoExc
            THEN AddLogged(r.out, Logged("Error running live debug", r.exc, TRUE))
            ELSE r.out
    ELSE AddLogged(o, Logged("Error during debugging", exc, TRUE))

\* load_app_class, lines 561-581: the module is executed; load "raises":
\* exec_module raises (caught at line 578), "no_app": no class with an App
\* base is found
load_app_class(app_file, o) ==
    [out |-> IF app_file.load = "raises"
             THEN AddPrinted([o EXCEPT !.loaded = @ + 1], "Error loading module", <<>>)
             ELSE [o EXCEPT !.loaded = @ + 1],
     app_class |-> app_file.load = "ok"]

\* profile_performance, lines 223-266, on the app class: the app is
\* constructed and run; ending: how app.run() ends
profile_performance(o, ending) ==
    LET run_ == [o EXCEPT !.ran = @ + 1, !.ending = ending]
    IN IF ending \in {"returns", "KeyboardInterrupt"}
       THEN AddPrinted(run_, "profile", <<>>)
       ELSE AddPrinted(run_, "Error during profiling", <<>>)

\* lines 524-532
profile_section(app_file, o, ending) ==
    LET l == load_app_class(app_file, o)
    IN IF l.app_class THEN profile_performance(l.out, ending) ELSE l.out

\* lines 516-532, once the widgets are extracted
analyze_sections(app_file, config, o, ending) ==
    LET o1 == IF config.inspect \/ config.verbose
              THEN AddPrinted(o, "widget tree", format_widget_tree(o.static_widgets)) ELSE o
        layout == analyze_layout(o.static_widgets)
    IN IF config.layout \/ config.verbose
       THEN IF layout.exc # NoExc
            THEN AddLogged([o1 EXCEPT !.layout = <<layout>>],
                           Logged("Error analyzing app", layout.exc, TRUE))
            ELSE IF config.profile
                 THEN profile_section(app_file,
                          AddPrinted([o1 EXCEPT !.layout = <<layout>>], "layout", layout.warnings),
                          ending)
                 ELSE AddPrinted([o1 EXCEPT !.layout = <<layout>>], "layout", layout.warnings)
       ELSE IF config.profile THEN profile_section(app_file, o1, ending) ELSE o1

\* analyze_app_file, lines 506-536
analyze_app_file(app_file, config, o, ending) ==
    IF SyntaxErrorIn(app_file.source)
    THEN AddLogged(o, Logged("Error analyzing app", "SyntaxError", TRUE))
    ELSE analyze_sections(app_file, config,
            [o EXCEPT !.static_widgets = extract_widgets_from_ast(parse(app_file.source))],
            ending)

(***************************************************************************)
(* The applications the debugger is pointed at                             *)
(***************************************************************************)
Leaf(type, oid) == Widget(type, oid, "", "", <<>>)

\* the screen of the live app: trees of depth 1 to 4, and trees with a node
\* whose attributes raise
Screens ==
    { Leaf("Screen", 1),
      Widget("Screen", 1, "", "", <<Leaf("Button", 2), Leaf("Button", 3)>>),
      Widget("Screen", 1, "", "",
             <<Widget("Container", 2, "main", "", <<Leaf("Button", 3)>>)>>),
      Widget("Screen", 1, "", "",
             <<Widget("Container", 2, "", "",
                      <<Leaf("Button", 3),
                        Widget("Container", 4, "", "", <<Leaf("Label", 5)>>)>>),
               Leaf("Static", 6)>>),
      Widget("Screen", 1, "", "",
             <<Widget("Container", 2, "", "classes", <<Leaf("Button", 3)>>),
               Leaf("Static", 4)>>),
      Widget("Screen", 1, "", "_nodes", <<Leaf("Button", 2)>>) }

\* an on_* method of the app: whether it takes the event, and its result
Handler(name, takes_event, result) ==
    [name |-> name, takes_event |-> takes_event, result |-> result]

OnKey == Handler("on_key", TRUE, "handled")

OnMount == Handler("on_mount", FALSE, "mounted")

\* the app instance: context: app._context is there and truthy; own_trace:
\* the app has a method _trace_event of its own; bad_attr: the app has an
\* on_* property whose read raises
LiveApp(context, screen, handlers, own_trace, bad_attr) ==
    [context |-> context, screen |-> screen, handlers |-> handlers,
     own_trace |-> own_trace, bad_attr |-> bad_attr]

LiveShapes ==
    { LiveApp(TRUE, sc, {OnKey}, FALSE, FALSE) : sc \in Screens }
    \cup { LiveApp(FALSE, Leaf("Screen", 1), {}, FALSE, FALSE),
           LiveApp(TRUE, NoScreen, {OnKey, OnMount}, FALSE, FALSE),
           LiveApp(TRUE, Leaf("Screen", 1), {OnKey, OnMount}, TRUE, FALSE),
           LiveApp(TRUE, Leaf("Screen", 1), {OnKey}, FALSE, TRUE) }

\* the text of the app file: a class whose compose yields
\* widgets.Container() on line 5, widgets.Button() on line 6,
\* widgets.Custom() on line 7 and Label() on line 8
AppSource ==
    <<Line(ImportFrom(TextualApp, <<"App">>), <<>>),
      Line(ClassDef("MyApp", <<Attribute(Attribute(Name("textual"), "app"), "App")>>,
             <<FunctionDef(<<"compose">>, 1, None,
                 <<YieldStmt(CallAt(Attribute(Name("widgets"), "Container"), 5)),
                   YieldStmt(CallAt(Attribute(Name("widgets"), "Button"), 6)),
                   YieldStmt(CallAt(Attribute(Name("widgets"), "Custom"), 7)),
                   YieldStmt(CallAt(Name("Label"), 8))>>)>>), <<>>)>>

\* the app file: its text, what executing it as a module does, and the app
\* its class constructs
AppFile(source, load, app) ==
    [kind |-> "file", source |-> source, load |-> load, app |-> app]

MissingAppFile == [kind |-> "missing"]

AppFiles ==
    { AppFile(AppSource, "ok", a) : a \in LiveShapes }
    \cup { AppFile(AppSource, "raises", LiveApp(FALSE, NoScreen, {}, FALSE, FALSE)),
           AppFile(<<Line(Bad, <<>>)>>, "raises", LiveApp(FALSE, NoScreen, {}, FALSE, FALSE)),
           AppFile(<<>>, "no_app", LiveApp(FALSE, NoScreen, {}, FALSE, FALSE)) }

\* the command lines: verbose is args.verbose or args.analyze; log and
\* output are "" (not given), "ok" or "denied" (the path cannot be opened
\* for writing).  With --live only --events and --log change what is done:
\* the other flags are drawn without it.
CommandLines ==
    { [app_file |-> "app.py", live |-> TRUE, events |-> e, inspect |-> FALSE,
       layout |-> FALSE, profile |-> FALSE, verbose |-> FALSE, log |-> l,
       output |-> ""] :
         e \in BOOLEAN, l \in {"", "ok", "denied"} }
    \cup
    { [app_file |-> "app.py", live |-> FALSE, events |-> e, inspect |-> i,
       layout |-> l, profile |-> p, verbose |-> v, log |-> "", output |-> o] :
         e \in BOOLEAN, i \in BOOLEAN, l \in BOOLEAN, p \in BOOLEAN,
         v \in BOOLEAN, o \in {"", "ok", "denied"} }
    \cup { NoArgs }

(***************************************************************************)
(* main() of textual-debug.py                                              *)
(***************************************************************************)
\* the largest reading of the clock
MaxClock == 1

\* the largest number of handler calls and trace calls of one run
MaxEvents == 2

\* the variables of the validator run, which the debugger run leaves alone
vvars == <<mode, fix, run, total_files, idx, passed, failed, file, validator,
           is_valid, called, found, fixing, report, start, history>>

ValidatorIdle ==
    /\ mode = "file"
    /\ fix = FALSE
    /\ run = 1
    /\ total_files = 0
    /\ idx = 0
    /\ passed = 0
    /\ failed = 0
    /\ file = NoFile
    /\ validator = NewValidator
    /\ is_valid = FALSE
    /\ called = <<>>
    /\ found = <<>>
    /\ fixing = FALSE
    /\ report = NoReport
    /\ start = NoFile
    /\ history = <<>>

DebugInit ==
    /\ ValidatorIdle
    /\ pc = "main"
    /\ exit_code = Running
    /\ args \in CommandLines
    /\ target \in AppFiles \cup {MissingAppFile}
    /\ debugger = NoDebugger
    /\ wrapped = {}
    /\ calls = <<>>
    /\ out = NoOutput

\* lines 681-710: no app_file and a path that does not exist end the run
\* with 1; otherwise the mode is chosen
ParseArgs ==
    /\ pc = "main"
    /\ IF args.app_file = "" \/ target.kind = "missing"
       THEN exit_code' = 1 /\ pc' = "exit"
       ELSE pc' = (IF args.live THEN "live" ELSE "static") /\ UNCHANGED exit_code
    /\ UNCHANGED <<args, target, debugger, wrapped, calls, out>>
    /\ UNCHANGED vvars

\* line 710: analyze_app_file; the run of the app under the profiler ends in
\* one of three ways
AnalyzeAppFile ==
    /\ pc = "static"
    /\ \E ending \in {"returns", "KeyboardInterrupt", "RuntimeError"} :
          out' = analyze_app_file(target, args, out, ending)
    /\ pc' = "finish"
    /\ UNCHANGED <<exit_code, args, target, debugger, wrapped, calls>>
    /\ UNCHANGED vvars

\* lines 587-593: the module is loaded, the app and the debugger are
\* constructed; without an App class the function returns
RunLiveDebug ==
    /\ pc = "live"
    /\ \E l \in {load_app_class(target, out)} :
          /\ out' = (IF l.app_class THEN l.out
                     ELSE AddPrinted(l.out, "Could not find App class in file", <<>>))
          /\ IF l.app_class
             THEN \E now \in 0..MaxClock :
                     debugger' = TextualDebugger(now) /\ pc' = "tree"
             ELSE pc' = "finish" /\ UNCHANGED debugger
    /\ UNCHANGED <<exit_code, args, target, wrapped, calls>>
    /\ UNCHANGED vvars

\* line 439
GetWidgetTree ==
    /\ pc = "tree"
    /\ debugger' = [debugger EXCEPT !.widgets = get_widget_tree(target.app)]
    /\ pc' = "tracing"
    /\ UNCHANGED <<exit_code, args, target, wrapped, calls, out>>
    /\ UNCHANGED vvars

\* lines 440-441: _setup_event_tracing (lines 448-467) replaces every
\* callable on_* attribute of the app; reading an attribute that raises
\* leaves the try block.  Then app.run() is entered.
SetupEventTracing ==
    /\ pc = "tracing"
    /\ IF args.events /\ target.app.bad_attr
       THEN /\ out' = start_debugging_except(debugger, args.log,
                          [out EXCEPT !.ending = "RuntimeError"], "RuntimeError")
            /\ pc' = "finish"
            /\ UNCHANGED wrapped
       ELSE /\ wrapped' = (IF args.events
                           THEN {h.name : h \in target.app.handlers} ELSE {})
            /\ out' = [out EXCEPT !.ran = @ + 1]
            /\ pc' = "run"
    /\ UNCHANGED <<exit_code, args, target, debugger, calls>>
    /\ UNCHANGED vvars

\* the argument lists a handler of the app is called with: the ones its
\* original method takes, and the ones the callable bound at the name takes
\* (the traced handler takes the event)
CallArgs(h, event) ==
    {IF h.takes_event THEN <<event>> ELSE <<>>}
    \cup (IF h.name \in wrapped THEN {<<event>>} ELSE {})

\* line 441, while app.run() runs: an on_* attribute of the app is called.
\* An exception of the call leaves app.run() and the try block.
CallHandler ==
    /\ pc = "run"
    /\ Len(calls) < MaxEvents
    /\ UNCHANGED <<exit_code, args, target, debugger, wrapped>>
    /\ \E h \in target.app.handlers : \E call_args \in CallArgs(h, "key q") :
         \E r \in {IF h.name \in wrapped
                   THEN traced_handler(target.app, h, call_args)
                   ELSE call_original(h, call_args)} :
            /\ calls' = Append(calls,
                  [kind |-> "call", name |-> h.name, args |-> call_args,
                   wrapped |-> h.name \in wrapped, original |-> h,
                   raised |-> r.raised, invoked |-> r.invoked,
                   returned |-> r.returned,
                   log_before |-> debugger.events_log,
                   log_after |-> debugger'.events_log])
            /\ IF r.raised # NoExc
               THEN /\ out' = start_debugging_except(debugger, args.log,
                                  [out EXCEPT !.ending = r.raised], r.raised)
                    /\ pc' = "finish"
               ELSE UNCHANGED <<out, pc>>
    /\ UNCHANGED vvars

\* a call of the debugger's _trace_event (lines 469-482), which reads the
\* clock
TraceEvent ==
    /\ pc = "run"
    /\ Len(calls) < MaxEvents
    /\ \E now \in 0..MaxClock :
          /\ debugger' = _trace_event(debugger, "on_key", "key q", now)
          /\ calls' = Append(calls,
                [kind |-> "trace", event_type |-> "on_key", event |-> "key q",
                 now |-> now])
    /\ UNCHANGED <<pc, exit_code, args, target, wrapped, out>>
    /\ UNCHANGED vvars

\* line 441: app.run() returns, or an exception leaves it
RunEnds ==
    /\ pc = "run"
    /\ \E ending \in {"returns", "KeyboardInterrupt", "RuntimeError"} :
          out' = (IF ending = "returns"
                  THEN [out EXCEPT !.ending = ending]
                  ELSE start_debugging_except(debugger, args.log,
                           [out EXCEPT !.ending = ending], ending))
    /\ pc' = "finish"
    /\ UNCHANGED <<exit_code, args, target, debugger, wrapped, calls>>
    /\ UNCHANGED vvars

\* Ctrl+C while the tree is walked or the tracing is set up (lines 439-440)
Interrupt ==
    /\ pc \in {"tree", "tracing"}
    /\ out' = start_debugging_except(debugger, args.log,
                  [out EXCEPT !.ending = "KeyboardInterrupt"], "KeyboardInterrupt")
    /\ pc' = "finish"
    /\ UNCHANGED <<exit_code, args, target, debugger, wrapped, calls>>
    /\ UNCHANGED vvars

\* lines 712-723: the output file of the static mode (an open that fails
\* ends the run with 1) and the last line
Finish ==
    /\ pc = "finish"
    /\ IF ~args.live /\ args.output = "denied"
       THEN /\ exit_code' = 1
            /\ out' = AddLogged(out, Logged("Error", "PermissionError", args.verbose))
       ELSE /\ exit_code' = 0
            /\ out' = AddPrinted(
                         IF ~args.live /\ args.output = "ok"
                         THEN AddPrinted(out, "Report saved", <<>>) ELSE out,
                         "Debug analysis complete!", <<>>)
    /\ pc' = "exit"
    /\ UNCHANGED <<args, target, debugger, wrapped, calls>>
    /\ UNCHANGED vvars

DebugNext ==
    \/ ParseArgs
    \/ AnalyzeAppFile
    \/ RunLiveDebug
    \/ GetWidgetTree
    \/ SetupEventTracing
    \/ CallHandler
    \/ TraceEvent
    \/ RunEnds
    \/ Interrupt
    \/ Finish

DebugSpec == DebugInit /\ [][DebugNext]_vars

(***************************************************************************)
(* analyze_layout on its own, applied to chains of widgets                 *)
(***************************************************************************)
\* the longest chain of widgets, each the parent of the next
MaxChain == 7

\* the chain whose k-th widget has the k-th type
Chain(types) ==
    [k \in 1..Len(types) |->
        WidgetInfo(WidgetName(types[k], k), types[k], "",
                   IF k = 1 THEN None ELSE WidgetName(types[k - 1], k - 1), <<>>)]

Chains == { Chain(t) : t \in UNION { [1..n -> {"Container", "Button"}] : n \in 0..MaxChain } }

LayoutInit ==
    /\ ValidatorIdle
    /\ pc = "layout"
    /\ exit_code = Running
    /\ args = NoArgs
    /\ target = NoTarget
    /\ debugger = NoDebugger
    /\ wrapped = {}
    /\ calls = <<>>
    /\ out \in { [NoOutput EXCEPT !.static_widgets = ws] : ws \in Chains }

\* analyze_layout(widgets) is called
AnalyzeLayout ==
    /\ pc = "layout"
    /\ out' = [out EXCEPT !.layout = <<analyze_layout(out.static_widgets)>>]
    /\ pc' = "returned"
    /\ UNCHANGED <<exit_code, args, target, debugger, wrapped, calls>>
    /\ UNCHANGED vvars

LayoutNext == AnalyzeLayout

LayoutSpec == LayoutInit /\ [][LayoutNext]_vars

(***************************************************************************)
(* generate_debug_report on its own, applied to the event log and the      *)
(* metrics of a debugger                                                   *)
(***************************************************************************)
\* the longest event log
MaxLog == 22

\* the longest list of metrics
MaxMetrics == 12

\* the log of n events, the k-th traced at time k
EventLog(n) == [k \in 1..n |-> EventInfo("on_key", k, "key q")]

\* n metrics of n different cumulative times: by decreasing time, as
\* pstats sorts them, or in another order (ahead: how far the order is
\* turned)
SortedMetrics(n) == [k \in 1..n |-> PerformanceMetric(k, n - k + 1)]

TurnedMetrics(n, ahead) ==
    [k \in 1..n |-> PerformanceMetric(k, ((k + ahead) % n) + 1)]

MetricLists ==
    { SortedMetrics(n) : n \in 0..MaxMetrics }
    \cup { TurnedMetrics(n, ahead) : n \in 1..MaxMetrics, ahead \in 0..1 }

ReportInit ==
    /\ ValidatorIdle
    /\ pc = "report"
    /\ exit_code = Running
    /\ args = NoArgs
    /\ target = NoTarget
    /\ \E n \in 0..MaxLog : \E metrics \in MetricLists :
          debugger = [TextualDebugger(0) EXCEPT !.events_log = EventLog(n),
                                                 !.performance_metrics = metrics]
    /\ wrapped = {}
    /\ calls = <<>>
    /\ out = NoOutput

\* generate_debug_report is called with the debugger's lists
GenerateReport ==
    /\ pc = "report"
    /\ out' = [out EXCEPT !.reports =
                  <<generate_debug_report(debugger.widgets, debugger.events_log,
                                          debugger.performance_metrics)>>]
    /\ pc' = "returned"
    /\ UNCHANGED <<exit_code, args, target, debugger, wrapped, calls>>
    /\ UNCHANGED vvars

ReportNext == GenerateReport

ReportSpec == ReportInit /\ [][ReportNext]_vars

(***************************************************************************)
(* Properties of the debugger                                              *)
(***************************************************************************)
\* get_widget_tree has returned the snapshot
Walked == debugger.constructed /\ pc \in {"tracing", "run"}

\* the names of the nodes of the snapshot whose parent is `name`
ChildNames(widgets, name) ==
    { widgets[k].name : k \in {j \in 1..Len(widgets) : widgets[j].parent = name} }

\* C11: in every snapshot the children of each node are exactly the nodes
\* whose parent is that node, each once, so that no name is among the
\* children of two nodes.
C11_ChildrenAreTheDirectOnes ==
    Walked =>
        LET widgets == debugger.widgets
        IN /\ \A k \in 1..Len(widgets) :
                 /\ Range(widgets[k].children) = ChildNames(widgets, widgets[k].name)
                 /\ Cardinality(Range(widgets[k].children)) = Len(widgets[k].children)
           /\ \A j, k \in 1..Len(widgets) :
                 j # k => Range(widgets[j].children) \cap Range(widgets[k].children) = {}

\* no attribute of a node of the tree raises
RECURSIVE NoFault(_)
NoFault(node) ==
    /\ node.fault = ""
    /\ \A k \in 1..Len(node.nodes) : NoFault(node.nodes[k])

\* C12: in a non-empty snapshot of a walk in which no node failed, the
\* parent of every node is empty or the name of another node of the
\* snapshot, and exactly one node, the screen, has an empty parent.
C12_ParentsAreInSnapshot ==
    (Walked /\ debugger.widgets # <<>> /\ NoFault(target.app.screen)) =>
        LET widgets == debugger.widgets
            roots == {k \in 1..Len(widgets) : widgets[k].parent = None}
        IN /\ \A k \in 1..Len(widgets) :
                 \/ widgets[k].parent = None
                 \/ \E j \in 1..Len(widgets) :
                       j # k /\ widgets[j].name = widgets[k].parent
           /\ Cardinality(roots) = 1
           /\ \A k \in roots :
                 widgets[k].name =
                    WidgetName(target.app.screen.type, target.app.screen.oid)

\* the snapshot of the tree of depth 4
C12_Witness ==
    /\ Walked
    /\ NoFault(target.app.screen)
    /\ Len(debugger.widgets) = 6
    /\ \E k \in 1..6 : debugger.widgets[k].type = "Label"

\* C13: every call of a wrapped handler appends one EventInfo to the
\* debugger's log, then invokes the original handler once with the same
\* arguments and returns its result, and raises nothing, also for a
\* handler that takes no event.
C13_WrapperIsTransparent ==
    \A k \in 1..Len(calls) :
        (calls[k].kind = "call" /\ calls[k].wrapped) =>
            /\ calls[k].raised = NoExc
            /\ calls[k].invoked = <<calls[k].args>>
            /\ calls[k].returned = calls[k].original.result
            /\ Len(calls[k].log_after) = Len(calls[k].log_before) + 1
            /\ SubSeq(calls[k].log_after, 1, Len(calls[k].log_before))
                  = calls[k].log_before

\* the calls of _trace_event so far
TraceCalls == SelectSeq(calls, LAMBDA c : c.kind = "trace")

\* C14: the log holds one entry per call of _trace_event, in the order of
\* the calls and as each call appended it, each timestamp is the clock
\* reading of the call minus the start time, and the timestamps never
\* decrease along the log.
C14_LogAppendOnlyAndOrdered ==
    debugger.constructed =>
        LET log == debugger.events_log
        IN /\ Len(log) = Len(TraceCalls)
           /\ \A k \in 1..Len(log) :
                 log[k] = EventInfo(TraceCalls[k].event_type,
                                    TraceCalls[k].now - debugger.start_time,
                                    TraceCalls[k].event)
           /\ \A j, k \in 1..Len(log) :
                 j < k => log[j].timestamp <= log[k].timestamp

\* the debugger run has left start_debugging
Ended == args.live /\ debugger.constructed /\ pc \in {"finish", "exit"}

HasLogged(text) == \E k \in 1..Len(out.logged) : out.logged[k].text = text

\* C15: when a KeyboardInterrupt ends the run, the final report is
\* generated exactly once, from the snapshot and the event log, and the
\* interrupt is not logged as an error.
C15_InterruptGivesReport ==
    (Ended /\ out.ending = "KeyboardInterrupt") =>
        /\ out.reports = <<generate_debug_report(debugger.widgets, debugger.events_log,
                                                 debugger.performance_metrics)>>
        /\ ~HasLogged("Error during debugging")
        /\ args.log # "denied" => out.logged = <<>>

\* an interrupted run with widgets in the snapshot and events in the log
C15_Witness ==
    /\ pc = "exit"
    /\ Ended
    /\ out.ending = "KeyboardInterrupt"
    /\ Len(out.reports) = 1
    /\ Len(out.reports[1].tree) > 1
    /\ Len(out.reports[1].events) = 2

\* C16: when an exception other than the interrupt leaves the run (or the
\* steps before it), it is logged with a trace and the final report is
\* still generated.
C16_ErrorStillGivesReport ==
    (Ended /\ out.ending \notin {"", "returns", "KeyboardInterrupt"}) =>
        /\ \E k \in 1..Len(out.logged) : out.logged[k].trace
        /\ Len(out.reports) = 1

\* C17: without --live the module of the app is never loaded and the app
\* is never run, whatever the other flags.
C17_StaticRunsNothing ==
    ~args.live => out.loaded = 0 /\ out.ran = 0

\* C20: analyze_layout emits the deep-nesting warning exactly when the
\* maximum nesting depth of the widgets is greater than 5.
C20_DeepNestingWarning ==
    pc = "returned" =>
        LET widgets == out.static_widgets
        IN ("Deep nesting may impact performance" \in Range(out.layout[1].warnings))
              <=> (max_depth(widgets, widgets) > 5)

\* C21: the application run is entered only after the tree walk and the
\* tracing setup, in that order, and a run that returns by itself is
\* followed by exactly one final report.
C21_NormalExitGivesReport ==
    /\ (args.live /\ pc = "run") =>
          /\ debugger.widgets = get_widget_tree(target.app)
          /\ wrapped = (IF args.events
                        THEN {h.name : h \in target.app.handlers} ELSE {})
    /\ (Ended /\ out.ending = "returns") => Len(out.reports) = 1

(***************************************************************************)
(* Further properties of the validator                                     *)
(***************************************************************************)
\* C22: the file is written only in fix mode, when the errors found hold
\* the missing-import error and the repaired text differs from the text
\* read; otherwise the file is as it was and fixes_applied is empty, so a
\* FixRecord is there only when the file was written.  The same holds of
\* every earlier run on the file.
C22_WriteOnlyWhenRepaired ==
    /\ AfterValidate =>
          /\ Rewritten =>
                /\ fix
                /\ HasMissingImport(found)
                /\ file.content # start.content
                /\ file.content = _fix_missing_imports(start.content)
                /\ file.writes = start.writes + 1
          /\ ~Rewritten =>
                /\ file = start
                /\ validator.fixes_applied = <<>>
          /\ validator.fixes_applied # <<>> => Rewritten
    /\ \A k \in 1..Len(history) :
          /\ history[k].wrote =>
                /\ history[k].fix
                /\ HasMissingImport(history[k].found)
                /\ history[k].after # history[k].before
          /\ ~history[k].wrote =>
                /\ history[k].after = history[k].before
                /\ history[k].fixes_applied = <<>>

\* a second run in fix mode finds the missing-import error again and writes
\* nothing, after a first run that wrote the file
C22_Witness ==
    /\ AfterValidate
    /\ fix
    /\ file.writable
    /\ HasMissingImport(found)
    /\ ~Rewritten
    /\ validator.fixes_applied = <<>>
    /\ \E k \in 1..Len(history) : history[k].wrote /\ history[k].fixes_applied # <<>>

BraceErrorTexts ==
    {"Unclosed CSS block starting at line {line}",
     "Mismatched braces in CSS at line {line}"}

BraceErrors(msgs) == SelectSeq(msgs, LAMBDA e : e.text \in BraceErrorTexts)

\* the text has style blocks, each with as many closing as opening braces,
\* and one of them opens a brace on one line and closes it on a later one
BalancedOverLines(content) ==
    LET blocks == CssBlocks(content)
    IN /\ blocks # <<>>
       /\ \A k \in 1..Len(blocks) :
             Braces(blocks[k].lines, "{") = Braces(blocks[k].lines, "}")
       /\ \E k \in 1..Len(blocks) : \E i, j \in 1..Len(blocks[k].lines) :
             /\ i < j
             /\ Count(blocks[k].lines[i], "{") = 1
             /\ Count(blocks[k].lines[i], "}") = 0
             /\ Count(blocks[k].lines[j], "}") = 1

\* C23: a style block whose braces are balanced over the whole block but
\* span several lines produces no brace error.
C23_BalancedBlockNoBraceError ==
    (AfterValidate /\ Parsed /\ BalancedOverLines(start.content))
        => BraceErrors(found) = <<>>

\* the on_* methods of the text
HandlersOf(content) ==
    SelectSeq(walk(parse(content)),
              LAMBDA n : n.kind = "FunctionDef" /\ IsHandlerName(n.name))

WarnsNoEvent(msgs, name) ==
    \E k \in 1..Len(msgs) :
        /\ msgs[k].text = "Event handler '{handler}' should have event parameter"
        /\ msgs[k].handler = name

\* C24: every on_* handler whose only parameter is the receiver gets the
\* 'should have event parameter' warning, and a handler with an event
\* parameter after the receiver does not.
C24_HandlerWithoutEventWarned ==
    (AfterValidate /\ Parsed) =>
        LET handlers == HandlersOf(start.content)
        IN \A k \in 1..Len(handlers) :
              /\ handlers[k].nargs <= 1 => WarnsNoEvent(validator.warnings, handlers[k].name)
              /\ handlers[k].nargs >= 2 => ~WarnsNoEvent(validator.warnings, handlers[k].name)

\* the segment of a handler name that names the event type: its lower case
lower_event(event) ==
    CASE event = "Mount" -> "mount"
      [] event = "Unmount" -> "unmount"
      [] event = "Key" -> "key"
      [] event = "Click" -> "click"
      [] event = "Button" -> "button"
      [] event = "Input" -> "input"
      [] event = "ListView" -> "listview"
      [] event = "Tab" -> "tab"
      [] event = "Switch" -> "switch"
      [] event = "CheckBox" -> "checkbox"
      [] event = "Tree" -> "tree"
      [] event = "Log" -> "log"
      [] event = "Message" -> "message"
      [] event = "Event" -> "event"

NamesKnownEvent(segment) == \E e \in VALID_EVENTS : lower_event(e) = segment

WarnsUnknownEvent(msgs, name) ==
    \E k \in 1..Len(msgs) :
        /\ msgs[k].text = "Unknown event type '{name}' in handler '{handler}'"
        /\ msgs[k].handler = name

\* C25: a handler with two or more segments after on_ gets the unknown
\* event type warning exactly when its first segment names no known event
\* type; a handler with one segment never gets it.
C25_UnknownEventIffNotKnown ==
    (AfterValidate /\ Parsed) =>
        LET handlers == HandlersOf(start.content)
        IN \A k \in 1..Len(handlers) :
              IF Len(handlers[k].name) >= 3
              THEN WarnsUnknownEvent(validator.warnings, handlers[k].name)
                      <=> ~NamesKnownEvent(handlers[k].name[2])
              ELSE ~WarnsUnknownEvent(validator.warnings, handlers[k].name)

\* the identifiers of the widget construction calls that the compose
\* method yields, written qualified or bare
YieldedWidgets(content) ==
    LET composes == SelectSeq(walk(parse(content)), IsCompose)
        yields == IF composes = <<>> THEN <<>>
                  ELSE SelectSeq(walk(Head(composes)),
                                 LAMBDA n : IsYield(n) /\ n.value.kind = "Call")
    IN { IF yields[k].value.func.kind = "Attribute"
         THEN yields[k].value.func.attr ELSE yields[k].value.func.id
         : k \in 1..Len(yields) }

UnknownWidgetText == "Unknown widget or container: {name}"

\* C26: every yielded widget whose identifier is in neither set gets the
\* unknown-widget warning and no error, written qualified or bare, and the
\* identifiers of the sets get no such warning.
C26_UnknownWidgetWarned ==
    (AfterValidate /\ Parsed) =>
        /\ \A w \in YieldedWidgets(start.content) :
              (\E k \in 1..Len(validator.warnings) :
                    /\ validator.warnings[k].text = UnknownWidgetText
                    /\ validator.warnings[k].name = w)
                 <=> w \notin VALID_WIDGETS \cup VALID_CONTAINERS
        /\ ~HasText(found, UnknownWidgetText)

C27_AnalyzeLayoutNeverRaises ==
    pc = "returned" => out.layout[1].exc = NoExc

\* the nodes of a live tree that the walk can extract: a node whose own
\* attributes cannot be read is lost with what is below it, and a node
\* whose child list cannot be read is kept without what is below it
RECURSIVE Extractable(_)
Extractable(node) ==
    IF node.fault = "classes" THEN {}
    ELSE {WidgetName(node.type, node.oid)}
            \cup (IF node.fault = "_nodes" THEN {}
                  ELSE UNION { Extractable(node.nodes[k]) : k \in 1..Len(node.nodes) })

\* C28: a failure at one node of the walk is caught at that node: the
\* snapshot holds, once each, every node of the tree that is neither the
\* failed node nor below a failed node, the siblings that follow a failed
\* node included, and get_widget_tree returns it.
C28_FailureCaughtAtNode ==
    Walked =>
        LET widgets == debugger.widgets
            app == target.app
        IN /\ Range(NamesOf(widgets)) =
                 (IF app.context /\ app.screen.fault # "screen"
                  THEN Extractable(app.screen) ELSE {})
           /\ Cardinality(Range(NamesOf(widgets))) = Len(widgets)

\* the container of the screen failed and the Static after it is in the
\* snapshot
C28_Witness ==
    /\ Walked
    /\ Len(target.app.screen.nodes) = 2
    /\ target.app.screen.nodes[1].fault = "classes"
    /\ Len(debugger.widgets) = 2
    /\ debugger.widgets[2].type = "Static"

\* C29: the report renders the 20 most recently appended events, in the
\* order they were appended, and at most 10 metrics, which are those of
\* the greatest cumulative time among the metrics given.
C29_RecentEventsTopMetrics ==
    pc = "returned" =>
        LET text == out.reports[1]
            events == debugger.events_log
            metrics == debugger.performance_metrics
            first == IF Len(events) > 20 THEN Len(events) - 20 ELSE 0
        IN /\ Len(text.events) = Len(events) - first
           /\ \A k \in 1..Len(text.events) : text.events[k] = events[first + k]
           /\ Len(text.metrics) = (IF Len(metrics) > 10 THEN 10 ELSE Len(metrics))
           /\ Range(text.metrics) \subseteq Range(metrics)
           /\ \A shown \in Range(text.metrics) :
                 \A other \in Range(metrics) \ Range(text.metrics) :
                    shown.cumulative_time >= other.cumulative_time

====
